---- MODULE Spec2Model ----
(***************************************************************************)
(* Grid traffic simulation engine (TrafficSimulation) with one four-way    *)
(* intersection, as built by create_simple_four_way_intersection: cars on  *)
(* lanes, the intersection's active list, the traffic light controller     *)
(* and the per-tick movement protocol.                                     *)
(***************************************************************************)
EXTENDS Integers, Sequences, FiniteSets, TLC

VARIABLES
    car,                    \* car object -> its fields, or NoCar before construction
    cars,                   \* TrafficSimulation.cars (a list)
    lane_cars,              \* road id -> lane number -> Lane.cars (a list)
    cars_in_intersection,   \* Intersection.cars_in_intersection (a list)
    car_entry_directions,   \* TrafficSimulation.car_entry_directions (a dict)
    lights,                 \* direction -> [state, timer] of the TrafficLight
    cycle_position,         \* TrafficLightController.cycle_position
    cycle_timer,            \* TrafficLightController.cycle_timer
    tick_count,             \* TrafficSimulation.tick_count
    attempt,                \* per car: what its move attempts of the last tick did
    override,               \* direction -> state set by set_traffic_light since the last tick
    ret,                    \* what the last call returned
    twin,                   \* a second engine given the same calls, or None without one
    intersection_size,      \* Intersection.size
    traffic_queues,         \* backend traffic_sim: lane -> list of arrival times
    signal_state,           \* backend traffic_sim.signal_state
    simulation_time,        \* backend traffic_sim.simulation_time
    waiting_times_fixed,    \* backend traffic_sim.waiting_times_fixed (a list)
    waiting_times_dynamic,  \* backend traffic_sim.waiting_times_dynamic (a list)
    signal_timer            \* backend traffic_sim.signal_timer

\* the globals of the queue-based backend simulator
backend == <<traffic_queues, signal_state, simulation_time, waiting_times_fixed,
             waiting_times_dynamic, signal_timer>>

vars == <<car, cars, lane_cars, cars_in_intersection, car_entry_directions,
          lights, cycle_position, cycle_timer, tick_count, attempt, override, ret, twin,
          intersection_size, backend>>

\* the lanes of the backend simulator's queues
QueueLanes == {"North", "South", "East", "West"}

\* traffic_sim's globals as the module sets them when loaded
BackendLoaded ==
    /\ traffic_queues = [lane \in QueueLanes |-> <<>>]
    /\ signal_state = "NorthSouth"
    /\ simulation_time = 0
    /\ waiting_times_fixed = <<>>
    /\ waiting_times_dynamic = <<>>
    /\ signal_timer = 0

----------------------------------------------------------------------------
\* enums.py

NORTH == "north"
SOUTH == "south"
EAST == "east"
WEST == "west"
Direction == {NORTH, SOUTH, EAST, WEST}

STRAIGHT == "straight"
LEFT == "left"
RIGHT == "right"
Movement == {STRAIGHT, LEFT, RIGHT}

RED == "red"
YELLOW == "yellow"
GREEN == "green"
GREEN_ARROW == "green_arrow"
TrafficLightState == {RED, YELLOW, GREEN, GREEN_ARROW}

None == "None"
\* a returned bool, as recorded in ret and attempt
PyBool(b) == IF b THEN "True" ELSE "False"
NoCar == [position |-> <<0, 0>>, direction |-> None, intended_movement |-> None,
          lane |-> 0, wait_time |-> 0]

----------------------------------------------------------------------------
\* Bounds of the model

MaxTick == 3            \* ticks explored under the full interface
MaxAutoTick == 120      \* ticks explored when only tick() is called
MaxCars == 2            \* length of the engine's car list under the full interface
MaxConvoyTick == 8      \* ticks explored for the six-car convoy
MaxSignalTick == 31     \* ticks explored when signals are set between ticks
MaxTwinTick == 3        \* ticks explored for two engines run side by side
MaxRemoveTick == 6      \* ticks explored when cars are removed between ticks
MaxFullTick == 4        \* ticks explored for a car exiting onto a full lane
MaxObserveTick == 5     \* ticks explored when snapshots are taken between ticks
MaxEntryMoves == 5      \* direct move_car calls explored per car
MaxSizedWait == 4       \* where the wait counter stops counting in a sized intersection
MaxRoadLanes == 3       \* lanes of a constructed road
MaxQueueTime == 3       \* steps of the queue simulator between resets
MaxFixedTime == 11      \* fixed-mode steps between resets
MaxDuration == 2        \* longest duration given to set_state
MaxTimerTick == 2       \* ticks between the direct calls on the lights

CarIds == {"c1", "c2", "c3", "c4", "c5", "c6"}

----------------------------------------------------------------------------
\* Topology: TrafficSimulation(grid_size=(20, 20)) and
\* create_simple_four_way_intersection(center=(10, 10))

grid_width == 20
grid_height == 20
center_row == 10
center_col == 10
size == 3
num_lanes == 2
road_near == 2          \* distance from the center to a road's nearest cell
road_far == 6           \* distance from the center to a road's farthest cell
max_car_speed == 2
cycle_duration == 30

main_intersection == "main_intersection"

RoadIds == <<"north_road", "south_road", "east_road", "west_road">>

roads ==
    [r \in {RoadIds[i] : i \in 1..4} |->
        CASE r = "north_road" ->
                [start_pos |-> <<center_row - road_far, center_col>>,
                 end_pos |-> <<center_row - road_near, center_col>>,
                 direction |-> SOUTH, num_lanes |-> num_lanes]
          [] r = "south_road" ->
                [start_pos |-> <<center_row + road_near, center_col>>,
                 end_pos |-> <<center_row + road_far, center_col>>,
                 direction |-> NORTH, num_lanes |-> num_lanes]
          [] r = "east_road" ->
                [start_pos |-> <<center_row, center_col + road_near>>,
                 end_pos |-> <<center_row, center_col + road_far>>,
                 direction |-> WEST, num_lanes |-> num_lanes]
          [] r = "west_road" ->
                [start_pos |-> <<center_row, center_col - road_far>>,
                 end_pos |-> <<center_row, center_col - road_near>>,
                 direction |-> EAST, num_lanes |-> num_lanes]]

connected_roads ==
    [d \in Direction |->
        CASE d = NORTH -> "north_road"
          [] d = SOUTH -> "south_road"
          [] d = EAST -> "east_road"
          [] d = WEST -> "west_road"]

Min(a, b) == IF a < b THEN a ELSE b
Max(a, b) == IF a < b THEN b ELSE a

\* Road._get_road_positions: the cells of a road
get_road_positions(road) ==
    IF road.direction \in {NORTH, SOUTH}
    THEN {<<row, road.start_pos[2] + lane_offset>> :
            row \in Min(road.start_pos[1], road.end_pos[1]) ..
                    Max(road.start_pos[1], road.end_pos[1]),
            lane_offset \in 0 .. road.num_lanes - 1}
    ELSE {<<road.start_pos[1] + lane_offset, col>> :
            lane_offset \in 0 .. road.num_lanes - 1,
            col \in Min(road.start_pos[2], road.end_pos[2]) ..
                    Max(road.start_pos[2], road.end_pos[2])}

\* _get_lane_positions, were the lanes of every road taken by column
get_lane_positions_by_column(road, lane_num) ==
    {p \in get_road_positions(road) : p[2] = road.start_pos[2] + lane_num}

\* Road._get_lane_positions: the cells of one lane of a road
get_lane_positions(road, lane_num) ==
    IF road.direction \in {NORTH, SOUTH}
    THEN {p \in get_road_positions(road) : p[2] = road.start_pos[2] + lane_num}
    ELSE {p \in get_road_positions(road) : p[1] = road.start_pos[1] + lane_num}

LaneNums == 0 .. num_lanes - 1

\* Lane.positions of lane lane_num of road road_id
positions(road_id, lane_num) == get_lane_positions(roads[road_id], lane_num)

\* Lane.max_cars
max_cars(road_id, lane_num) == Cardinality(positions(road_id, lane_num))

\* Intersection._calculate_intersection_positions
calculate_intersection_positions(crow, ccol, sz) ==
    LET half_size == sz \div 2 IN
    {<<row, col>> : row \in crow - half_size .. crow + half_size,
                    col \in ccol - half_size .. ccol + half_size}

intersection_positions == calculate_intersection_positions(center_row, center_col, size)

----------------------------------------------------------------------------
\* Python list operations used by the engine

\* x in lst
In(x, lst) == \E i \in 1..Len(lst) : lst[i] = x

\* lst.remove(x), for x in lst: drops the first occurrence only
ListRemove(lst, x) ==
    LET i == CHOOSE k \in 1..Len(lst) :
                 lst[k] = x /\ \A j \in 1..(k - 1) : lst[j] # x
    IN  [j \in 1..(Len(lst) - 1) |-> IF j < i THEN lst[j] ELSE lst[j + 1]]

----------------------------------------------------------------------------
\* car.py

\* Car.__init__
Car(position, direction, intended_movement, lane) ==
    [position |-> position, direction |-> direction,
     intended_movement |-> intended_movement, lane |-> lane, wait_time |-> 0]

\* Car.get_next_position
get_next_position(c, distance) ==
    LET row == c.position[1]
        col == c.position[2]
    IN  CASE c.direction = NORTH -> <<row - distance, col>>
          [] c.direction = SOUTH -> <<row + distance, col>>
          [] c.direction = EAST -> <<row, col + distance>>
          [] c.direction = WEST -> <<row, col - distance>>
          [] OTHER -> c.position

\* Car.move_to
move_to(c, new_position) == [c EXCEPT !.position = new_position, !.wait_time = 0]

\* Car.increment_wait_time
increment_wait_time(c) == [c EXCEPT !.wait_time = c.wait_time + 1]

\* turn, were it to set the heading opposite to the one asked for
turn_about(c, new_direction) ==
    [c EXCEPT !.direction = CASE new_direction = NORTH -> SOUTH
                              [] new_direction = SOUTH -> NORTH
                              [] new_direction = EAST -> WEST
                              [] new_direction = WEST -> EAST
                              [] OTHER -> new_direction]

\* Car.turn
turn(c, new_direction) == [c EXCEPT !.direction = new_direction]

----------------------------------------------------------------------------
\* traffic_light.py

\* TrafficLight.__init__
TrafficLight(initial_state) == [state |-> initial_state, timer |-> 0]

\* TrafficLight.set_state with the default duration
set_state(light, new_state) == [state |-> new_state, timer |-> 0]

\* TrafficLight.set_state called with a duration
set_state_for(light, new_state, duration) == [state |-> new_state, timer |-> duration]

\* TrafficLight.update, were it to count down without looking at the timer
light_update_unguarded(light) == [light EXCEPT !.timer = light.timer - 1]

\* TrafficLight.update
light_update(light) ==
    IF light.timer > 0 THEN [light EXCEPT !.timer = light.timer - 1] ELSE light

\* TrafficLight.can_go_straight
can_go_straight(light) == light.state \in {GREEN, GREEN_ARROW}

\* can_turn_left, were it to accept a plain GREEN as well
can_turn_left_on_green(light) == light.state \in {GREEN, GREEN_ARROW}

\* TrafficLight.can_turn_left
can_turn_left(light) == light.state = GREEN_ARROW

\* TrafficLight.can_turn_right
can_turn_right(light) == light.state # RED

\* TrafficLightController.default_cycle
default_cycle == <<{NORTH, SOUTH}, {EAST, WEST}>>

\* set_light_state, were it to set every light of the controller
set_light_state_every_light(s, direction, state) ==
    [s EXCEPT !.lights = [d \in Direction |-> set_state(s.lights[d], state)]]

\* TrafficLightController.set_light_state
set_light_state(s, direction, state) ==
    IF direction \in DOMAIN s.lights
    THEN [s EXCEPT !.lights[direction] = set_state(s.lights[direction], state)]
    ELSE s

\* update_automatic_cycle, were the phase to change only after the timer has
\* passed cycle_duration
update_automatic_cycle_late(s) ==
    LET timer1 == s.cycle_timer + 1
        wrap == timer1 > cycle_duration
        timer2 == IF wrap THEN 0 ELSE timer1
        position2 == IF wrap THEN (s.cycle_position + 1) % Len(default_cycle)
                             ELSE s.cycle_position
        green_directions == default_cycle[position2 + 1]
    IN  [s EXCEPT !.cycle_timer = timer2,
                  !.cycle_position = position2,
                  !.lights = [d \in Direction |->
                                 IF d \in green_directions
                                 THEN set_state(set_state(s.lights[d], RED), GREEN)
                                 ELSE set_state(s.lights[d], RED)]]

\* update_automatic_cycle, were it not to set all lights to RED first
update_automatic_cycle_without_reset(s) ==
    LET timer1 == s.cycle_timer + 1
        wrap == timer1 >= cycle_duration
        timer2 == IF wrap THEN 0 ELSE timer1
        position2 == IF wrap THEN (s.cycle_position + 1) % Len(default_cycle)
                             ELSE s.cycle_position
        green_directions == default_cycle[position2 + 1]
    IN  [s EXCEPT !.cycle_timer = timer2,
                  !.cycle_position = position2,
                  !.lights = [d \in Direction |->
                                 IF d \in green_directions
                                 THEN set_state(s.lights[d], GREEN)
                                 ELSE s.lights[d]]]

\* TrafficLightController.update_automatic_cycle
update_automatic_cycle(s) ==
    LET timer1 == s.cycle_timer + 1
        wrap == timer1 >= cycle_duration
        timer2 == IF wrap THEN 0 ELSE timer1
        position2 == IF wrap THEN (s.cycle_position + 1) % Len(default_cycle)
                             ELSE s.cycle_position
        green_directions == default_cycle[position2 + 1]
    IN  [s EXCEPT !.cycle_timer = timer2,
                  !.cycle_position = position2,
                  !.lights = [d \in Direction |->
                                 IF d \in green_directions
                                 THEN set_state(set_state(s.lights[d], RED), GREEN)
                                 ELSE set_state(s.lights[d], RED)]]

\* TrafficLightController.update (Intersection.update calls it)
controller_update(s) ==
    [s EXCEPT !.lights = [d \in Direction |-> light_update(s.lights[d])]]

----------------------------------------------------------------------------
\* road.py.  An engine state s is a record of the engine's fields, with
\* s.result the value the operation returned.

\* Lane.add_car, were it not to compare the length of the list with max_cars
lane_add_car_any_length(s, c, road_id, lane_num) ==
    IF s.car[c].position \in positions(road_id, lane_num)
    THEN [s EXCEPT !.lane_cars[road_id][lane_num] = Append(@, c), !.result = TRUE]
    ELSE [s EXCEPT !.result = FALSE]

\* Lane.add_car
lane_add_car(s, c, road_id, lane_num) ==
    IF /\ Len(s.lane_cars[road_id][lane_num]) < max_cars(road_id, lane_num)
       /\ s.car[c].position \in positions(road_id, lane_num)
    THEN [s EXCEPT !.lane_cars[road_id][lane_num] = Append(@, c), !.result = TRUE]
    ELSE [s EXCEPT !.result = FALSE]

\* Road.add_car
road_add_car(s, c, road_id, lane_num) ==
    IF lane_num \in LaneNums
    THEN LET s1 == lane_add_car(s, c, road_id, lane_num)
         IN  IF s1.result THEN [s1 EXCEPT !.car[c].lane = lane_num] ELSE s1
    ELSE [s EXCEPT !.result = FALSE]

\* Road.remove_car (Lane.remove_car on the first lane that holds the car)
road_remove_car(s, c, road_id) ==
    IF \E l \in LaneNums : In(c, s.lane_cars[road_id][l])
    THEN LET l == CHOOSE k \in LaneNums :
                      /\ In(c, s.lane_cars[road_id][k])
                      /\ \A j \in LaneNums : j < k => ~In(c, s.lane_cars[road_id][j])
         IN  [s EXCEPT !.lane_cars[road_id][l] = ListRemove(@, c), !.result = TRUE]
    ELSE [s EXCEPT !.result = FALSE]

RECURSIVE ConcatLanes(_, _, _)
ConcatLanes(s, road_id, l) ==
    IF l > num_lanes - 1 THEN <<>>
    ELSE s.lane_cars[road_id][l] \o ConcatLanes(s, road_id, l + 1)

\* Road.get_all_cars
get_all_cars(s, road_id) == ConcatLanes(s, road_id, 0)

\* Lane.get_car_at_position
lane_get_car_at_position(s, road_id, lane_num, position) ==
    LET lst == s.lane_cars[road_id][lane_num]
        hits == {i \in 1..Len(lst) : s.car[lst[i]].position = position}
    IN  IF hits = {} THEN None
        ELSE lst[CHOOSE i \in hits : \A j \in hits : i <= j]

\* Lane.is_position_free
lane_is_position_free(s, road_id, lane_num, position) ==
    /\ position \in positions(road_id, lane_num)
    /\ lane_get_car_at_position(s, road_id, lane_num, position) = None

\* Road.is_position_free with lane_num None: the first lane that covers the cell decides
road_is_position_free(s, road_id, position) ==
    IF \E l \in LaneNums : position \in positions(road_id, l)
    THEN LET l == CHOOSE k \in LaneNums :
                      /\ position \in positions(road_id, k)
                      /\ \A j \in LaneNums : j < k => position \notin positions(road_id, j)
         IN  lane_is_position_free(s, road_id, l, position)
    ELSE FALSE

\* Road.get_car_at_position
road_get_car_at_position(s, road_id, position) ==
    LET hits == {l \in LaneNums :
                    lane_get_car_at_position(s, road_id, l, position) # None}
    IN  IF hits = {} THEN None
        ELSE lane_get_car_at_position(s, road_id,
                 CHOOSE l \in hits : \A j \in hits : l <= j, position)

----------------------------------------------------------------------------
\* intersection.py

\* Intersection._is_intersection_position_free
is_intersection_position_free(s, position) ==
    /\ position \in intersection_positions
    /\ \A i \in 1..Len(s.cars_in_intersection) :
           s.car[s.cars_in_intersection[i]].position # position

\* Intersection.can_car_enter
can_car_enter(s, c, from_direction) ==
    LET light == s.lights[from_direction]
        movement == s.car[c].intended_movement
        refused == \/ movement = STRAIGHT /\ ~can_go_straight(light)
                   \/ movement = LEFT /\ ~can_turn_left(light)
                   \/ movement = RIGHT /\ ~can_turn_right(light)
    IN  IF refused THEN FALSE
        ELSE is_intersection_position_free(s, get_next_position(s.car[c], 1))

\* Intersection.add_car_to_intersection
add_car_to_intersection(s, c) ==
    IF s.car[c].position \in intersection_positions /\ ~In(c, s.cars_in_intersection)
    THEN [s EXCEPT !.cars_in_intersection = Append(@, c), !.result = TRUE]
    ELSE [s EXCEPT !.result = FALSE]

\* Intersection.remove_car_from_intersection
remove_car_from_intersection(s, c) ==
    IF In(c, s.cars_in_intersection)
    THEN [s EXCEPT !.cars_in_intersection = ListRemove(@, c), !.result = TRUE]
    ELSE [s EXCEPT !.result = FALSE]

\* get_exit_direction, were the RIGHT and LEFT tables swapped
get_exit_direction_mirrored(intended_movement, entry_direction) ==
    CASE intended_movement = STRAIGHT -> entry_direction
      [] intended_movement = LEFT /\ entry_direction = NORTH -> EAST
      [] intended_movement = LEFT /\ entry_direction = EAST -> SOUTH
      [] intended_movement = LEFT /\ entry_direction = SOUTH -> WEST
      [] intended_movement = LEFT /\ entry_direction = WEST -> NORTH
      [] intended_movement = RIGHT /\ entry_direction = NORTH -> WEST
      [] intended_movement = RIGHT /\ entry_direction = WEST -> SOUTH
      [] intended_movement = RIGHT /\ entry_direction = SOUTH -> EAST
      [] intended_movement = RIGHT /\ entry_direction = EAST -> NORTH
      [] OTHER -> entry_direction

\* Intersection.get_exit_direction
get_exit_direction(intended_movement, entry_direction) ==
    CASE intended_movement = STRAIGHT -> entry_direction
      [] intended_movement = RIGHT /\ entry_direction = NORTH -> EAST
      [] intended_movement = RIGHT /\ entry_direction = EAST -> SOUTH
      [] intended_movement = RIGHT /\ entry_direction = SOUTH -> WEST
      [] intended_movement = RIGHT /\ entry_direction = WEST -> NORTH
      [] intended_movement = LEFT /\ entry_direction = NORTH -> WEST
      [] intended_movement = LEFT /\ entry_direction = WEST -> SOUTH
      [] intended_movement = LEFT /\ entry_direction = SOUTH -> EAST
      [] intended_movement = LEFT /\ entry_direction = EAST -> NORTH
      [] OTHER -> entry_direction

\* process_car_in_intersection, were the exit reached at the center line
process_car_exit_at_center(s, c, entry_direction) ==
    LET exit_direction == get_exit_direction(s.car[c].intended_movement, entry_direction)
        row == s.car[c].position[1]
        col == s.car[c].position[2]
    IN  CASE exit_direction = NORTH /\ row <= center_row -> exit_direction
          [] exit_direction = SOUTH /\ row >= center_row -> exit_direction
          [] exit_direction = EAST /\ col >= center_col -> exit_direction
          [] exit_direction = WEST /\ col <= center_col -> exit_direction
          [] OTHER -> None

\* Intersection.process_car_in_intersection
process_car_in_intersection(s, c, entry_direction) ==
    LET exit_direction == get_exit_direction(s.car[c].intended_movement, entry_direction)
        row == s.car[c].position[1]
        col == s.car[c].position[2]
    IN  CASE exit_direction = NORTH /\ row <= center_row - 1 -> exit_direction
          [] exit_direction = SOUTH /\ row >= center_row + 1 -> exit_direction
          [] exit_direction = EAST /\ col >= center_col + 1 -> exit_direction
          [] exit_direction = WEST /\ col <= center_col - 1 -> exit_direction
          [] OTHER -> None

----------------------------------------------------------------------------
\* simulation.py

RoadIdSet == {RoadIds[i] : i \in 1..Len(RoadIds)}

\* what a car's move attempts of one tick did: n attempts, the last one returned
\* moved, started with wait counter wait_before under the signal states signals,
\* and, if it asked to enter the intersection, consulted the signal of
\* direction entry and read state light there; location is what
\* find_car_location returned for the car when the attempt started
NoAttempt == [n |-> 0, moved |-> None, wait_before |-> 0,
              signals |-> [d \in Direction |-> None], entry |-> None, light |-> None,
              location |-> <<None, None>>]

\* add_car, were it to append the car to the car list whatever the road answers
sim_add_car_always_registers(s, c, road_id, lane_num) ==
    IF road_id \in RoadIdSet
    THEN LET s1 == road_add_car(s, c, road_id, lane_num)
         IN  [s1 EXCEPT !.cars = Append(@, c)]
    ELSE [s EXCEPT !.result = FALSE]

\* TrafficSimulation.add_car
sim_add_car(s, c, road_id, lane_num) ==
    IF road_id \in RoadIdSet
    THEN LET s1 == road_add_car(s, c, road_id, lane_num)
         IN  IF s1.result THEN [s1 EXCEPT !.cars = Append(@, c)] ELSE s1
    ELSE [s EXCEPT !.result = FALSE]

RECURSIVE RemoveFromRoads(_, _, _)
RemoveFromRoads(s, c, i) ==
    IF i > Len(RoadIds) THEN s
    ELSE RemoveFromRoads(road_remove_car(s, c, RoadIds[i]), c, i + 1)

\* remove_car, were it to leave the car's entry-direction record in place
sim_remove_car_keeps_record(s, c) ==
    IF In(c, s.cars)
    THEN LET s1 == [s EXCEPT !.cars = ListRemove(@, c)]
             s2 == RemoveFromRoads(s1, c, 1)
             s3 == remove_car_from_intersection(s2, c)
         IN  [s3 EXCEPT !.result = None]
    ELSE [s EXCEPT !.result = None]

\* TrafficSimulation.remove_car
sim_remove_car(s, c) ==
    IF In(c, s.cars)
    THEN LET s1 == [s EXCEPT !.cars = ListRemove(@, c)]
             s2 == RemoveFromRoads(s1, c, 1)
             s3 == remove_car_from_intersection(s2, c)
         IN  [s3 EXCEPT !.car_entry_directions[c] = None, !.result = None]
    ELSE [s EXCEPT !.result = None]

RECURSIVE ConcatRoads(_, _)
ConcatRoads(s, i) ==
    IF i > Len(RoadIds) THEN <<>>
    ELSE get_all_cars(s, RoadIds[i]) \o ConcatRoads(s, i + 1)

\* TrafficSimulation.get_car_at_position: roads in order, then the intersection
get_car_at_position(s, position) ==
    LET lst == ConcatRoads(s, 1) \o s.cars_in_intersection
        hits == {i \in 1..Len(lst) : s.car[lst[i]].position = position}
    IN  IF hits = {} THEN None
        ELSE lst[CHOOSE i \in hits : \A j \in hits : i <= j]

\* TrafficSimulation.is_position_free
is_position_free(s, position) == get_car_at_position(s, position) = None

\* TrafficSimulation.is_valid_position
is_valid_position(position) ==
    /\ 0 <= position[1] /\ position[1] < grid_height
    /\ 0 <= position[2] /\ position[2] < grid_width

\* TrafficSimulation.find_car_location: <<road_id, intersection_id>>
find_car_location(s, c) ==
    LET hits == {i \in 1..Len(RoadIds) : In(c, get_all_cars(s, RoadIds[i]))}
    IN  IF hits # {}
        THEN <<RoadIds[CHOOSE i \in hits : \A j \in hits : i <= j], None>>
        ELSE IF In(c, s.cars_in_intersection)
             THEN <<None, main_intersection>>
             ELSE <<None, None>>

\* TrafficSimulation._get_intersection_at_position
get_intersection_at_position(position) ==
    IF position \in intersection_positions THEN main_intersection ELSE None

\* the blocked branch, were it to forget the car's entry direction as well
BlockedForgetsEntry(s, c) ==
    [s EXCEPT !.car[c] = increment_wait_time(@), !.car_entry_directions[c] = None,
              !.result = FALSE]

\* the car's wait counter is incremented and the attempt returns False
Blocked(s, c) ==
    [s EXCEPT !.car[c] = increment_wait_time(@), !.result = FALSE]

\* TrafficSimulation._move_car_on_road
move_car_on_road(s, c, road_id) ==
    LET distance == Min(max_car_speed, 1)
        next_pos == get_next_position(s.car[c], 1)
        entry_direction == s.car[c].direction
    IN  IF distance < 1 \/ ~is_valid_position(next_pos)
        THEN Blocked(s, c)
        ELSE IF get_intersection_at_position(next_pos) # None
        THEN IF can_car_enter(s, c, entry_direction)
             THEN LET s1 == road_remove_car(s, c, road_id)
                      s2 == [s1 EXCEPT !.car[c] = move_to(@, next_pos)]
                      s3 == add_car_to_intersection(s2, c)
                  IN  [s3 EXCEPT !.car_entry_directions[c] = entry_direction,
                                 !.attempt[c].entry = entry_direction,
                                 !.attempt[c].light = s.lights[entry_direction].state,
                                 !.result = TRUE]
             ELSE [Blocked(s, c) EXCEPT
                      !.attempt[c].entry = entry_direction,
                      !.attempt[c].light = s.lights[entry_direction].state]
        ELSE IF ~is_position_free(s, next_pos)
        THEN Blocked(s, c)
        ELSE [s EXCEPT !.car[c] = move_to(@, next_pos), !.result = TRUE]

\* TrafficSimulation._move_car_in_intersection
move_car_in_intersection(s, c) ==
    LET entry_direction == IF s.car_entry_directions[c] # None
                           THEN s.car_entry_directions[c]
                           ELSE s.car[c].direction
        exit_direction == process_car_in_intersection(s, c, entry_direction)
        next_pos == get_next_position(s.car[c], 1)
    IN  IF exit_direction # None /\ exit_direction \in DOMAIN connected_roads
        THEN LET exit_road == connected_roads[exit_direction]
             IN  IF road_is_position_free(s, exit_road, next_pos)
                 THEN LET s1 == remove_car_from_intersection(s, c)
                          s2 == [s1 EXCEPT !.car[c] =
                                     move_to(turn(@, exit_direction), next_pos)]
                          s3 == road_add_car(s2, c, exit_road, s2.car[c].lane)
                      IN  [s3 EXCEPT !.car_entry_directions[c] = None,
                                     !.result = TRUE]
                 ELSE Blocked(s, c)
        ELSE IF /\ next_pos \in intersection_positions
                /\ is_intersection_position_free(s, next_pos)
             THEN [s EXCEPT !.car[c] = move_to(@, next_pos), !.result = TRUE]
             ELSE Blocked(s, c)

\* TrafficSimulation.move_car
move_car_dispatch(s, c) ==
    LET loc == find_car_location(s, c)
    IN  IF loc[1] # None THEN move_car_on_road(s, c, loc[1])
        ELSE IF loc[2] # None THEN move_car_in_intersection(s, c)
        ELSE [s EXCEPT !.result = FALSE]

\* TrafficSimulation.move_car, with the attempt recorded
move_car(s, c) ==
    LET s0 == [s EXCEPT !.attempt[c] =
                   [n |-> @.n + 1, moved |-> None,
                    wait_before |-> s.car[c].wait_time,
                    signals |-> [d \in Direction |-> s.lights[d].state],
                    entry |-> None, light |-> None,
                    location |-> find_car_location(s, c)]]
        s1 == move_car_dispatch(s0, c)
    IN  [s1 EXCEPT !.attempt[c].moved = PyBool(s1.result)]

RECURSIVE MoveAll(_, _, _)
\* the loop of tick over the shuffled copy of the car list
MoveAll(s, cars_to_move, i) ==
    IF i > Len(cars_to_move) THEN s
    ELSE MoveAll(move_car(s, cars_to_move[i]), cars_to_move, i + 1)

\* the signal update of tick: update_automatic_cycle, then Intersection.update
update_traffic_lights(s) == controller_update(update_automatic_cycle(s))

\* tick, were the cars moved before the traffic lights are updated
tick_moves_first(s, order) ==
    LET s1 == [s EXCEPT !.tick_count = @ + 1,
                        !.attempt = [c \in CarIds |-> NoAttempt]]
        cars_to_move == [i \in 1..Len(s.cars) |-> s.cars[order[i]]]
        s2 == MoveAll(s1, cars_to_move, 1)
        s3 == update_traffic_lights(s2)
    IN  [s3 EXCEPT !.result = None]

\* tick, were it to drop the cars that stand at the edge of the grid
tick_drops_cars_at_edge(s, order) ==
    LET s1 == [s EXCEPT !.tick_count = @ + 1,
                        !.attempt = [c \in CarIds |-> NoAttempt]]
        s2 == update_traffic_lights(s1)
        cars_to_move == [i \in 1..Len(s.cars) |-> s.cars[order[i]]]
        s3 == MoveAll(s2, cars_to_move, 1)
    IN  [s3 EXCEPT !.result = None,
                   !.cars = SelectSeq(@, LAMBDA c :
                                is_valid_position(get_next_position(s3.car[c], 1)))]

\* TrafficSimulation.tick, with order the permutation random.shuffle picks
tick(s, order) ==
    LET s1 == [s EXCEPT !.tick_count = @ + 1,
                        !.attempt = [c \in CarIds |-> NoAttempt]]
        s2 == update_traffic_lights(s1)
        cars_to_move == [i \in 1..Len(s.cars) |-> s.cars[order[i]]]
        s3 == MoveAll(s2, cars_to_move, 1)
    IN  [s3 EXCEPT !.result = None]

\* set_traffic_light, were it to set the light of the one intersection there is
\* before it reports the unknown id
set_traffic_light_then_refuses(s, intersection_id, direction, state) ==
    IF intersection_id = main_intersection
    THEN [set_light_state(s, direction, state) EXCEPT !.result = TRUE]
    ELSE [set_light_state(s, direction, state) EXCEPT !.result = FALSE]

\* TrafficSimulation.set_traffic_light
set_traffic_light(s, intersection_id, direction, state) ==
    IF intersection_id = main_intersection
    THEN [set_light_state(s, direction, state) EXCEPT !.result = TRUE]
    ELSE [s EXCEPT !.result = FALSE]

----------------------------------------------------------------------------
\* Observation of the engine

\* TrafficLightController.get_state_info
controller_get_state_info(s) == [d \in Direction |-> s.lights[d].state]

\* Intersection.get_state_info, were it to count the registered cars
intersection_get_state_info_counts_all(s) ==
    [intersection_id |-> main_intersection,
     cars_count |-> Len(s.cars),
     traffic_lights |-> controller_get_state_info(s),
     car_positions |-> [i \in 1..Len(s.cars_in_intersection) |->
                           s.car[s.cars_in_intersection[i]].position]]

\* Intersection.get_state_info
intersection_get_state_info(s) ==
    [intersection_id |-> main_intersection,
     cars_count |-> Len(s.cars_in_intersection),
     traffic_lights |-> controller_get_state_info(s),
     car_positions |-> [i \in 1..Len(s.cars_in_intersection) |->
                           s.car[s.cars_in_intersection[i]].position]]

RECURSIVE SumWait(_, _)
\* sum(car.wait_time for car in self.cars), from the i-th car on
SumWait(s, i) ==
    IF i > Len(s.cars) THEN 0 ELSE s.car[s.cars[i]].wait_time + SumWait(s, i + 1)

\* TrafficSimulation.get_simulation_state; the average wait time, a quotient,
\* is given as its numerator and denominator
get_simulation_state(s) ==
    [tick |-> s.tick_count,
     total_cars |-> Len(s.cars),
     intersections |-> [i \in {main_intersection} |-> intersection_get_state_info(s)],
     car_wait_times |-> [c \in {s.cars[i] : i \in 1..Len(s.cars)} |-> s.car[c].wait_time],
     average_wait_time |-> IF Len(s.cars) > 0
                           THEN <<SumWait(s, 1), Len(s.cars)>>
                           ELSE <<0, 1>>]

----------------------------------------------------------------------------
\* The engine as a state machine

\* the engine's fields as one record
State ==
    [car |-> car, cars |-> cars, lane_cars |-> lane_cars,
     cars_in_intersection |-> cars_in_intersection,
     car_entry_directions |-> car_entry_directions, lights |-> lights,
     cycle_position |-> cycle_position, cycle_timer |-> cycle_timer,
     tick_count |-> tick_count, attempt |-> attempt, result |-> None]

Commit(s) ==
    /\ car' = s.car
    /\ cars' = s.cars
    /\ lane_cars' = s.lane_cars
    /\ cars_in_intersection' = s.cars_in_intersection
    /\ car_entry_directions' = s.car_entry_directions
    /\ lights' = s.lights
    /\ cycle_position' = s.cycle_position
    /\ cycle_timer' = s.cycle_timer
    /\ tick_count' = s.tick_count
    /\ attempt' = s.attempt

\* the engine's fields are those of s
StartsAs(s) ==
    /\ car = s.car
    /\ cars = s.cars
    /\ lane_cars = s.lane_cars
    /\ cars_in_intersection = s.cars_in_intersection
    /\ car_entry_directions = s.car_entry_directions
    /\ lights = s.lights
    /\ cycle_position = s.cycle_position
    /\ cycle_timer = s.cycle_timer
    /\ tick_count = s.tick_count
    /\ attempt = s.attempt

NoOverride == [d \in Direction |-> None]

\* TrafficSimulation.__init__, Intersection.__init__ (four lights, all RED),
\* TrafficLightController.__init__ and create_simple_four_way_intersection
EmptyEngine ==
    [car |-> [c \in CarIds |-> NoCar],
     cars |-> <<>>,
     lane_cars |-> [r \in RoadIdSet |-> [l \in LaneNums |-> <<>>]],
     cars_in_intersection |-> <<>>,
     car_entry_directions |-> [c \in CarIds |-> None],
     lights |-> [d \in Direction |-> TrafficLight(RED)],
     cycle_position |-> 0,
     cycle_timer |-> 0,
     tick_count |-> 0,
     attempt |-> [c \in CarIds |-> NoAttempt],
     result |-> None]

Init ==
    /\ StartsAs(EmptyEngine)
    /\ override = NoOverride
    /\ ret = None
    /\ twin = None
    /\ intersection_size = size
    /\ BackendLoaded

\* inputs of the calls under the full interface
ApiCars == {"c1", "c2"}
CarInputs ==
    [c \in ApiCars |->
        IF c = "c1"
        THEN {[position |-> <<8, 10>>, direction |-> SOUTH, intended_movement |-> STRAIGHT],
              [position |-> <<8, 10>>, direction |-> SOUTH, intended_movement |-> LEFT],
              [position |-> <<8, 10>>, direction |-> SOUTH, intended_movement |-> RIGHT],
              [position |-> <<10, 8>>, direction |-> EAST, intended_movement |-> RIGHT]}
        ELSE {[position |-> <<8, 10>>, direction |-> SOUTH, intended_movement |-> STRAIGHT]}]
AddRoads == {"north_road", "west_road", "no_road"}
AddLanes == {0, 2}
SignalIntersections == {main_intersection, "no_intersection"}
SignalDirections == {SOUTH}
SignalStates == {RED, GREEN_ARROW}

\* the caller constructs a car: Car(car_id, position, direction, intended_movement)
CreateCar(c, position, direction, intended_movement) ==
    /\ car[c] = NoCar
    /\ car' = [car EXCEPT ![c] = Car(position, direction, intended_movement, 0)]
    /\ ret' = None
    /\ UNCHANGED <<cars, lane_cars, cars_in_intersection, car_entry_directions,
                   lights, cycle_position, cycle_timer, tick_count, attempt, override>>

\* add_car(car, road_id, lane_num)
AddCar(c, road_id, lane_num) ==
    /\ car[c] # NoCar
    /\ LET s == sim_add_car(State, c, road_id, lane_num)
       IN  Commit(s) /\ ret' = PyBool(s.result)
    /\ UNCHANGED override

\* remove_car(car)
RemoveCar(c) ==
    /\ car[c] # NoCar
    /\ Commit(sim_remove_car(State, c))
    /\ ret' = None
    /\ UNCHANGED override

\* set_traffic_light(intersection_id, direction, state)
SetSignal(intersection_id, direction, state) ==
    LET s == set_traffic_light(State, intersection_id, direction, state)
    IN  /\ Commit(s)
        /\ ret' = PyBool(s.result)
        /\ override' = IF s.result THEN [override EXCEPT ![direction] = state]
                                   ELSE override

\* tick(), with order the permutation random.shuffle picks
TickWith(order) ==
    /\ Commit(tick(State, order))
    /\ ret' = None
    /\ override' = NoOverride

\* tick()
Tick == \E order \in Permutations(1..Len(cars)) : TickWith(order)

Next ==
    \/ \E c \in ApiCars : \E i \in CarInputs[c] :
          CreateCar(c, i.position, i.direction, i.intended_movement)
              /\ UNCHANGED <<twin, intersection_size, backend>>
    \/ \E c \in ApiCars, road_id \in AddRoads, lane_num \in AddLanes :
          Len(cars) < MaxCars /\ AddCar(c, road_id, lane_num)
              /\ UNCHANGED <<twin, intersection_size, backend>>
    \/ \E c \in ApiCars : RemoveCar(c) /\ UNCHANGED <<twin, intersection_size, backend>>
    \/ \E intersection_id \in SignalIntersections, direction \in SignalDirections,
          state \in SignalStates :
          SetSignal(intersection_id, direction, state)
              /\ UNCHANGED <<twin, intersection_size, backend>>
    \/ tick_count < MaxTick /\ Tick /\ UNCHANGED <<twin, intersection_size, backend>>

Spec == Init /\ [][Next]_vars

----------------------------------------------------------------------------
\* Runs driven by tick() alone, from a placement set up with add_car

\* a placed car: Car(car_id, position, direction, intended_movement), then
\* add_car(car, road_id, lane_num)
Placed(car_id, position, direction, intended_movement, road_id, lane_num) ==
    [car_id |-> car_id, position |-> position, direction |-> direction,
     intended_movement |-> intended_movement, road_id |-> road_id,
     lane_num |-> lane_num]

RECURSIVE Place(_, _, _)
Place(s, placement, i) ==
    IF i > Len(placement) THEN s
    ELSE LET p == placement[i]
             s1 == [s EXCEPT !.car[p.car_id] =
                        Car(p.position, p.direction, p.intended_movement, 0)]
         IN  Place(sim_add_car(s1, p.car_id, p.road_id, p.lane_num), placement, i + 1)

InitPlaced(placements) ==
    /\ \E placement \in placements : StartsAs(Place(EmptyEngine, placement, 1))
    /\ override = NoOverride
    /\ ret = None
    /\ twin = None
    /\ intersection_size = size
    /\ BackendLoaded

NextAuto == tick_count < MaxAutoTick /\ Tick /\ UNCHANGED <<twin, intersection_size, backend>>

\* test_basic_functionality's first car, alone, under the automatic cycle
ScenarioPlacement ==
    <<Placed("c1", <<4, 10>>, SOUTH, STRAIGHT, "north_road", 0)>>

SpecScenario == InitPlaced({ScenarioPlacement}) /\ [][NextAuto]_vars

\* six STRAIGHT cars on column 10: one approaching on the north road, five
\* that have passed the intersection and drive away on the south road
ConvoyPlacement ==
    <<Placed("c1", <<8, 10>>, SOUTH, STRAIGHT, "north_road", 0),
      Placed("c2", <<12, 10>>, SOUTH, STRAIGHT, "south_road", 0),
      Placed("c3", <<13, 10>>, SOUTH, STRAIGHT, "south_road", 0),
      Placed("c4", <<14, 10>>, SOUTH, STRAIGHT, "south_road", 0),
      Placed("c5", <<15, 10>>, SOUTH, STRAIGHT, "south_road", 0),
      Placed("c6", <<16, 10>>, SOUTH, STRAIGHT, "south_road", 0)>>

NextConvoy == tick_count < MaxConvoyTick /\ Tick /\ UNCHANGED <<twin, intersection_size, backend>>

SpecConvoy == InitPlaced({ConvoyPlacement}) /\ [][NextConvoy]_vars

\* one turning car at the stop line of a lane
TurnPlacements ==
    {<<Placed("c1", sp[1], sp[2], m, sp[3], sp[4])>> :
        sp \in {<<<<8, 10>>, SOUTH, "north_road", 0>>, <<<<8, 11>>, SOUTH, "north_road", 1>>,
                <<<<12, 10>>, NORTH, "south_road", 0>>, <<<<12, 11>>, NORTH, "south_road", 1>>,
                <<<<10, 12>>, WEST, "east_road", 0>>, <<<<11, 12>>, WEST, "east_road", 1>>,
                <<<<10, 8>>, EAST, "west_road", 0>>, <<<<11, 8>>, EAST, "west_road", 1>>},
        m \in {RIGHT, LEFT}}

\* tick_count and the wait counters, which no decision of the engine reads,
\* stop counting at MaxAutoTick, so that tick() can be called forever
Saturate(s) ==
    [s EXCEPT !.tick_count = Min(@, MaxAutoTick),
              !.car = [c \in CarIds |->
                          [s.car[c] EXCEPT !.wait_time = Min(@, MaxAutoTick)]]]

\* tick(), called again and again
TickForever ==
    \E order \in Permutations(1..Len(cars)) :
        /\ Commit(Saturate(tick(State, order)))
        /\ ret' = None
        /\ override' = NoOverride
        /\ UNCHANGED <<twin, intersection_size, backend>>

\* every tick advances the controller's cycle timer (update_automatic_cycle)
TimerAdvances == cycle_timer' = (cycle_timer + 1) % cycle_duration

\* the caller keeps calling tick(): a step that advances the cycle timer,
\* which a tick always can take, is eventually taken
SpecLive ==
    InitPlaced(TurnPlacements) /\ [][TickForever]_vars /\ WF_cycle_timer(TimerAdvances)

----------------------------------------------------------------------------
\* The turn table, applied to a car inside the intersection

InitTurn ==
    /\ \E position \in intersection_positions, entry_direction \in Direction,
          intended_movement \in Movement :
          StartsAs([EmptyEngine EXCEPT
              !.car["c1"] = Car(position, entry_direction, intended_movement, 0),
              !.cars = <<"c1">>,
              !.cars_in_intersection = <<"c1">>,
              !.car_entry_directions["c1"] = entry_direction])
    /\ override = NoOverride
    /\ ret = [op |-> None, value |-> None]
    /\ twin = None
    /\ intersection_size = size
    /\ BackendLoaded

\* intersection.get_exit_direction(car, entry_direction)
GetExitDirection ==
    /\ ret' = [op |-> "get_exit_direction",
               value |-> get_exit_direction(car["c1"].intended_movement,
                                            car_entry_directions["c1"])]
    /\ UNCHANGED <<car, cars, lane_cars, cars_in_intersection, car_entry_directions,
                   lights, cycle_position, cycle_timer, tick_count, attempt, override,
                   twin, intersection_size, backend>>

\* intersection.process_car_in_intersection(car, entry_direction)
ProcessCar ==
    /\ ret' = [op |-> "process_car_in_intersection",
               value |-> process_car_in_intersection(State, "c1",
                                                     car_entry_directions["c1"])]
    /\ UNCHANGED <<car, cars, lane_cars, cars_in_intersection, car_entry_directions,
                   lights, cycle_position, cycle_timer, tick_count, attempt, override,
                   twin, intersection_size, backend>>

NextTurn == GetExitDirection \/ ProcessCar

SpecTurn == InitTurn /\ [][NextTurn]_vars

\* the caller sets any signal to any state between ticks, with the scenario's
\* car on the north road
NextSignals ==
    \/ \E intersection_id \in SignalIntersections, direction \in Direction,
          state \in TrafficLightState :
          SetSignal(intersection_id, direction, state)
              /\ UNCHANGED <<twin, intersection_size, backend>>
    \/ tick_count < MaxSignalTick /\ Tick /\ UNCHANGED <<twin, intersection_size, backend>>

SpecSignals == InitPlaced({ScenarioPlacement}) /\ [][NextSignals]_vars

----------------------------------------------------------------------------
\* Two engines, constructed alike, given the same calls and the same shuffles

\* the fields of an engine state, without the value the last call returned
Fields(s) == [s EXCEPT !.result = None]

InitTwin ==
    /\ StartsAs(EmptyEngine)
    /\ override = NoOverride
    /\ ret = None
    /\ twin = Fields(EmptyEngine)
    /\ intersection_size = size
    /\ BackendLoaded

TwinCars == {"c1", "c2"}
TwinInputs ==
    [c \in TwinCars |->
        IF c = "c1"
        THEN {[position |-> <<7, 10>>, direction |-> SOUTH, intended_movement |-> STRAIGHT],
              [position |-> <<8, 10>>, direction |-> SOUTH, intended_movement |-> RIGHT]}
        ELSE {[position |-> <<8, 10>>, direction |-> SOUTH, intended_movement |-> STRAIGHT]}]

TwinCreateCar ==
    \E c \in TwinCars : \E i \in TwinInputs[c] :
        /\ CreateCar(c, i.position, i.direction, i.intended_movement)
        /\ twin' = [twin EXCEPT !.car[c] =
                       Car(i.position, i.direction, i.intended_movement, 0)]

TwinAddCar ==
    \E c \in TwinCars, road_id \in AddRoads, lane_num \in AddLanes :
        /\ Len(cars) < MaxCars
        /\ AddCar(c, road_id, lane_num)
        /\ twin' = Fields(sim_add_car(twin, c, road_id, lane_num))

TwinRemoveCar ==
    \E c \in TwinCars :
        /\ RemoveCar(c)
        /\ twin' = Fields(sim_remove_car(twin, c))

TwinSetSignal ==
    \E intersection_id \in SignalIntersections, direction \in SignalDirections,
       state \in SignalStates :
        /\ SetSignal(intersection_id, direction, state)
        /\ twin' = Fields(set_traffic_light(twin, intersection_id, direction, state))

\* tick() on two engines whose shuffles are drawn independently
TwinTickOwnShuffle ==
    /\ tick_count < MaxTwinTick
    /\ \E order \in Permutations(1..Len(cars)), other \in Permutations(1..Len(twin.cars)) :
          /\ TickWith(order)
          /\ twin' = Fields(tick(twin, other))

\* tick() on both engines, random.shuffle picking the same permutation in both
TwinTick ==
    /\ tick_count < MaxTwinTick
    /\ \E order \in Permutations(1..Len(cars)) :
          /\ TickWith(order)
          /\ twin' = Fields(tick(twin, order))

NextTwin ==
    /\ TwinCreateCar \/ TwinAddCar \/ TwinRemoveCar \/ TwinSetSignal \/ TwinTick
    /\ UNCHANGED <<intersection_size, backend>>

SpecTwin == InitTwin /\ [][NextTwin]_vars

----------------------------------------------------------------------------
\* Cars removed between ticks

\* a STRAIGHT car on lane 0 and a RIGHT-turning car on lane 1 of the north
\* road, both at the stop line
RemovePlacement ==
    <<Placed("c1", <<8, 10>>, SOUTH, STRAIGHT, "north_road", 0),
      Placed("c2", <<8, 11>>, SOUTH, RIGHT, "north_road", 1)>>

RemoveCars == {"c1", "c2"}

NextRemove ==
    \/ \E c \in RemoveCars : RemoveCar(c) /\ UNCHANGED <<twin, intersection_size, backend>>
    \/ tick_count < MaxRemoveTick /\ Tick /\ UNCHANGED <<twin, intersection_size, backend>>

SpecRemove == InitPlaced({RemovePlacement}) /\ [][NextRemove]_vars

----------------------------------------------------------------------------
\* A car handed to a lane whose list is full

NextFull == tick_count < MaxFullTick /\ Tick /\ UNCHANGED <<twin, intersection_size, backend>>

SpecFull == InitPlaced({ConvoyPlacement}) /\ [][NextFull]_vars

----------------------------------------------------------------------------
\* add_car and remove_car on a lane that is nearly full

\* four cars on rows 4..7 of lane 0 of the north road
FillPlacement ==
    <<Placed("c2", <<4, 10>>, SOUTH, STRAIGHT, "north_road", 0),
      Placed("c3", <<5, 10>>, SOUTH, STRAIGHT, "north_road", 0),
      Placed("c4", <<6, 10>>, SOUTH, STRAIGHT, "north_road", 0),
      Placed("c5", <<7, 10>>, SOUTH, STRAIGHT, "north_road", 0)>>

\* the four cars placed, and two more constructed at the stop line, c1 on lane
\* 0 and c6 on lane 1, not added yet
InitFill ==
    /\ StartsAs([Place(EmptyEngine, FillPlacement, 1) EXCEPT
           !.car["c1"] = Car(<<8, 10>>, SOUTH, STRAIGHT, 0),
           !.car["c6"] = Car(<<8, 11>>, SOUTH, STRAIGHT, 0)])
    /\ override = NoOverride
    /\ ret = None
    /\ twin = None
    /\ intersection_size = size
    /\ BackendLoaded

FillCars == {"c1", "c6"}
FillRoads == {"north_road", "south_road", "no_road"}
FillLanes == {0, 1, 2}
FillRemoved == {"c1", "c2"}

NextFill ==
    \/ \E c \in FillCars, road_id \in FillRoads, lane_num \in FillLanes :
          AddCar(c, road_id, lane_num) /\ UNCHANGED <<twin, intersection_size, backend>>
    \/ \E c \in FillRemoved : RemoveCar(c) /\ UNCHANGED <<twin, intersection_size, backend>>

SpecFill == InitFill /\ [][NextFill]_vars

----------------------------------------------------------------------------
\* Snapshots taken between ticks, signal settings and removals; ret holds the
\* call made and the value it returned

InitObserve ==
    /\ StartsAs(Place(EmptyEngine, RemovePlacement, 1))
    /\ override = NoOverride
    /\ ret = [op |-> None, value |-> None]
    /\ twin = None
    /\ intersection_size = size
    /\ BackendLoaded

ObservedDirections == {NORTH, EAST}
ObservedStates == {YELLOW}

\* get_simulation_state()
GetState ==
    /\ ret' = [op |-> "get_simulation_state", value |-> get_simulation_state(State)]
    /\ UNCHANGED <<car, cars, lane_cars, cars_in_intersection, car_entry_directions,
                   lights, cycle_position, cycle_timer, tick_count, attempt, override,
                   twin, intersection_size, backend>>

ObserveTick ==
    /\ tick_count < MaxObserveTick
    /\ \E order \in Permutations(1..Len(cars)) : Commit(tick(State, order))
    /\ ret' = [op |-> "tick", value |-> None]
    /\ override' = NoOverride
    /\ UNCHANGED <<twin, intersection_size, backend>>

ObserveSetSignal ==
    \E direction \in ObservedDirections, state \in ObservedStates :
        /\ Commit(set_traffic_light(State, main_intersection, direction, state))
        /\ ret' = [op |-> "set_traffic_light", value |-> "True"]
        /\ override' = [override EXCEPT ![direction] = state]
        /\ UNCHANGED <<twin, intersection_size, backend>>

ObserveRemoveCar ==
    \E c \in RemoveCars :
        /\ Commit(sim_remove_car(State, c))
        /\ ret' = [op |-> "remove_car", value |-> None]
        /\ UNCHANGED <<override, twin, intersection_size, backend>>

NextObserve == GetState \/ ObserveTick \/ ObserveSetSignal \/ ObserveRemoveCar

SpecObserve == InitObserve /\ [][NextObserve]_vars

----------------------------------------------------------------------------
\* One STRAIGHT car at the stop line of an approach road, the four signals set
\* through set_traffic_light, the car moved through move_car

EntryPlacements ==
    {<<Placed("c1", sp[1], sp[2], STRAIGHT, sp[3], 0)>> :
        sp \in {<<<<8, 10>>, SOUTH, "north_road">>, <<<<12, 10>>, NORTH, "south_road">>,
                <<<<10, 12>>, WEST, "east_road">>, <<<<10, 8>>, EAST, "west_road">>}}

EntryStates == {RED, GREEN}

\* move_car(car)
MoveCar(c) ==
    LET s == move_car(State, c)
    IN  /\ In(c, cars)
        /\ attempt[c].n < MaxEntryMoves
        /\ Commit(s)
        /\ ret' = PyBool(s.result)
        /\ UNCHANGED override

NextEntry ==
    \/ \E direction \in Direction, state \in EntryStates :
          SetSignal(main_intersection, direction, state)
              /\ UNCHANGED <<twin, intersection_size, backend>>
    \/ \E c \in CarIds : MoveCar(c) /\ UNCHANGED <<twin, intersection_size, backend>>

SpecEntry == InitPlaced(EntryPlacements) /\ [][NextEntry]_vars

----------------------------------------------------------------------------
\* Two STRAIGHT cars, each at the stop line of a lane of an approach road,
\* under ticks called forever

StopLines ==
    <<<<<<8, 10>>, SOUTH, "north_road", 0>>, <<<<8, 11>>, SOUTH, "north_road", 1>>,
      <<<<12, 10>>, NORTH, "south_road", 0>>, <<<<12, 11>>, NORTH, "south_road", 1>>,
      <<<<10, 12>>, WEST, "east_road", 0>>, <<<<11, 12>>, WEST, "east_road", 1>>,
      <<<<10, 8>>, EAST, "west_road", 0>>, <<<<11, 8>>, EAST, "west_road", 1>>>>

StraightPlacements ==
    {<<Placed("c1", StopLines[i][1], StopLines[i][2], STRAIGHT, StopLines[i][3],
              StopLines[i][4]),
       Placed("c2", StopLines[j][1], StopLines[j][2], STRAIGHT, StopLines[j][3],
              StopLines[j][4])>> :
        i \in 1..Len(StopLines), j \in 1..Len(StopLines)} \
    {<<Placed("c1", StopLines[i][1], StopLines[i][2], STRAIGHT, StopLines[i][3],
              StopLines[i][4]),
       Placed("c2", StopLines[i][1], StopLines[i][2], STRAIGHT, StopLines[i][3],
              StopLines[i][4])>> : i \in 1..Len(StopLines)}

SpecStraight ==
    InitPlaced(StraightPlacements) /\ [][TickForever]_vars /\ WF_cycle_timer(TimerAdvances)

----------------------------------------------------------------------------
\* An intersection of another size: Intersection(id, center, size) connected
\* to four two-lane roads of the four-way layout that end next to its region,
\* and one STRAIGHT car that has just entered it

OddSizes == {1, 3, 5, 7}

\* Intersection._calculate_intersection_positions with self.size = sz
sized_positions(sz) == calculate_intersection_positions(center_row, center_col, sz)

\* the roads of create_simple_four_way_intersection, moved to the region's edge
sized_roads(sz) ==
    LET near == sz \div 2 + 1
        far == near + (road_far - road_near)
    IN  [r \in RoadIdSet |->
            CASE r = "north_road" ->
                    [start_pos |-> <<center_row - far, center_col>>,
                     end_pos |-> <<center_row - near, center_col>>,
                     direction |-> SOUTH, num_lanes |-> num_lanes]
              [] r = "south_road" ->
                    [start_pos |-> <<center_row + near, center_col>>,
                     end_pos |-> <<center_row + far, center_col>>,
                     direction |-> NORTH, num_lanes |-> num_lanes]
              [] r = "east_road" ->
                    [start_pos |-> <<center_row, center_col + near>>,
                     end_pos |-> <<center_row, center_col + far>>,
                     direction |-> WEST, num_lanes |-> num_lanes]
              [] r = "west_road" ->
                    [start_pos |-> <<center_row, center_col - far>>,
                     end_pos |-> <<center_row, center_col - near>>,
                     direction |-> EAST, num_lanes |-> num_lanes]]

\* Lane.positions of a lane of these roads
sized_lane_positions(sz, road_id, lane_num) ==
    get_lane_positions(sized_roads(sz)[road_id], lane_num)

\* Road.is_position_free with lane_num None, on these roads
sized_road_is_position_free(s, sz, road_id, position) ==
    IF \E l \in LaneNums : position \in sized_lane_positions(sz, road_id, l)
    THEN LET l == CHOOSE k \in LaneNums :
                      /\ position \in sized_lane_positions(sz, road_id, k)
                      /\ \A j \in LaneNums :
                             j < k => position \notin sized_lane_positions(sz, road_id, j)
         IN  lane_get_car_at_position(s, road_id, l, position) = None
    ELSE FALSE

\* Road.add_car and Lane.add_car, on these roads
sized_road_add_car(s, sz, c, road_id, lane_num) ==
    IF /\ lane_num \in LaneNums
       /\ Len(s.lane_cars[road_id][lane_num]) <
              Cardinality(sized_lane_positions(sz, road_id, lane_num))
       /\ s.car[c].position \in sized_lane_positions(sz, road_id, lane_num)
    THEN [s EXCEPT !.lane_cars[road_id][lane_num] = Append(@, c),
                   !.car[c].lane = lane_num, !.result = TRUE]
    ELSE [s EXCEPT !.result = FALSE]

\* Intersection._is_intersection_position_free with self.size = sz
sized_is_intersection_position_free(s, sz, position) ==
    /\ position \in sized_positions(sz)
    /\ \A i \in 1..Len(s.cars_in_intersection) :
           s.car[s.cars_in_intersection[i]].position # position

\* TrafficSimulation._move_car_in_intersection, the intersection being of size sz
sized_move_car_in_intersection(s, sz, c) ==
    LET entry_direction == IF s.car_entry_directions[c] # None
                           THEN s.car_entry_directions[c]
                           ELSE s.car[c].direction
        exit_direction == process_car_in_intersection(s, c, entry_direction)
        next_pos == get_next_position(s.car[c], 1)
    IN  IF exit_direction # None /\ exit_direction \in DOMAIN connected_roads
        THEN LET exit_road == connected_roads[exit_direction]
             IN  IF sized_road_is_position_free(s, sz, exit_road, next_pos)
                 THEN LET s1 == remove_car_from_intersection(s, c)
                          s2 == [s1 EXCEPT !.car[c] =
                                     move_to(turn(@, exit_direction), next_pos)]
                          s3 == sized_road_add_car(s2, sz, c, exit_road, s2.car[c].lane)
                      IN  [s3 EXCEPT !.car_entry_directions[c] = None,
                                     !.result = TRUE]
                 ELSE Blocked(s, c)
        ELSE IF /\ next_pos \in sized_positions(sz)
                /\ sized_is_intersection_position_free(s, sz, next_pos)
             THEN [s EXCEPT !.car[c] = move_to(@, next_pos), !.result = TRUE]
             ELSE Blocked(s, c)

\* the first cell of the region on the path of a car heading to direction on
\* lane lane_num of its approach road
EntryCell(sz, direction, lane_num) ==
    LET half_size == sz \div 2
    IN  CASE direction = SOUTH -> <<center_row - half_size, center_col + lane_num>>
          [] direction = NORTH -> <<center_row + half_size, center_col + lane_num>>
          [] direction = WEST -> <<center_row + lane_num, center_col + half_size>>
          [] direction = EAST -> <<center_row + lane_num, center_col - half_size>>

InitSized ==
    /\ \E sz \in OddSizes, direction \in Direction, lane_num \in LaneNums :
          /\ EntryCell(sz, direction, lane_num) \in sized_positions(sz)
          /\ intersection_size = sz
          /\ BackendLoaded
          /\ StartsAs([EmptyEngine EXCEPT
                 !.car["c1"] = Car(EntryCell(sz, direction, lane_num), direction,
                                   STRAIGHT, lane_num),
                 !.cars = <<"c1">>,
                 !.cars_in_intersection = <<"c1">>,
                 !.car_entry_directions["c1"] = direction])
    /\ override = NoOverride
    /\ ret = None
    /\ twin = None

\* move_car(car) for the car inside the intersection; the wait counter, which
\* no decision of the engine reads, stops counting at MaxSizedWait
SizedMove ==
    LET s == sized_move_car_in_intersection(State, intersection_size, "c1")
    IN  /\ In("c1", cars_in_intersection)
        /\ Commit([s EXCEPT !.car["c1"].wait_time = Min(@, MaxSizedWait)])
        /\ ret' = PyBool(s.result)
        /\ UNCHANGED <<override, twin, intersection_size, backend>>

NextSized == SizedMove

\* the caller keeps moving the car
SpecSized == InitSized /\ [][NextSized]_vars /\ WF_vars(NextSized)

----------------------------------------------------------------------------
\* Cars that get blocked: behind a waiting car, at a red signal, before an
\* occupied entry cell of the exit road, at the grid edge

BlockedPlacements ==
    {<<Placed("c1", <<8, 10>>, SOUTH, STRAIGHT, "north_road", 0),
       Placed("c2", <<7, 10>>, SOUTH, STRAIGHT, "north_road", 0)>>,
     <<Placed("c1", <<8, 10>>, SOUTH, STRAIGHT, "north_road", 0),
       Placed("c2", <<12, 10>>, SOUTH, STRAIGHT, "south_road", 0)>>,
     <<Placed("c1", <<4, 10>>, NORTH, STRAIGHT, "north_road", 0),
       Placed("c2", <<16, 10>>, SOUTH, STRAIGHT, "south_road", 0)>>}

BlockedDirections == {SOUTH}

NextBlocked ==
    \/ \E direction \in BlockedDirections, state \in EntryStates :
          SetSignal(main_intersection, direction, state)
              /\ UNCHANGED <<twin, intersection_size, backend>>
    \/ \E c \in CarIds : MoveCar(c) /\ UNCHANGED <<twin, intersection_size, backend>>

SpecBlocked == InitPlaced(BlockedPlacements) /\ [][NextBlocked]_vars

----------------------------------------------------------------------------
\* The automatic cycle, ticks called forever on the scenario's engine

SpecCycle ==
    InitPlaced({ScenarioPlacement}) /\ [][TickForever]_vars
        /\ WF_cycle_timer(TimerAdvances)

----------------------------------------------------------------------------
\* Roads constructed from any two end cells, direction and number of lanes;
\* ret holds the road and the lanes Road._create_lanes made

RoadEnds == {<<2, 3>>, <<2, 6>>, <<5, 3>>, <<5, 6>>}

InitRoad ==
    /\ StartsAs(EmptyEngine)
    /\ override = NoOverride
    /\ ret = [op |-> None, value |-> None]
    /\ twin = None
    /\ intersection_size = size
    /\ BackendLoaded

\* Road(road_id, start_pos, end_pos, direction, num_lanes)
CreateRoad(start_pos, end_pos, direction, lanes) ==
    LET road == [start_pos |-> start_pos, end_pos |-> end_pos,
                 direction |-> direction, num_lanes |-> lanes]
    IN  /\ ret' = [op |-> "Road",
                   value |-> [road |-> road,
                              positions |-> get_road_positions(road),
                              lanes |-> [lane_num \in 0..(lanes - 1) |->
                                            get_lane_positions(road, lane_num)]]]
        /\ UNCHANGED <<car, cars, lane_cars, cars_in_intersection,
                       car_entry_directions, lights, cycle_position, cycle_timer,
                       tick_count, attempt, override, twin, intersection_size, backend>>

NextRoad ==
    \E start_pos \in RoadEnds, end_pos \in RoadEnds, direction \in Direction,
       lanes \in 1..MaxRoadLanes :
        CreateRoad(start_pos, end_pos, direction, lanes)

SpecRoad == InitRoad /\ [][NextRoad]_vars

----------------------------------------------------------------------------
\* smart_traffic_simulator/backend/traffic_sim.py: the queue-based simulator

fixed_green_duration == 5

\* the globals of traffic_sim as one record
Backend ==
    [traffic_queues |-> traffic_queues, signal_state |-> signal_state,
     simulation_time |-> simulation_time, waiting_times_fixed |-> waiting_times_fixed,
     waiting_times_dynamic |-> waiting_times_dynamic, signal_timer |-> signal_timer]

BackendBecomes(q) ==
    /\ traffic_queues' = q.traffic_queues
    /\ signal_state' = q.signal_state
    /\ simulation_time' = q.simulation_time
    /\ waiting_times_fixed' = q.waiting_times_fixed
    /\ waiting_times_dynamic' = q.waiting_times_dynamic
    /\ signal_timer' = q.signal_timer

\* get_queue_lengths()
get_queue_lengths(q) == [lane \in QueueLanes |-> Len(q.traffic_queues[lane])]

\* simulate_car_arrivals(): arrived is the set of lanes whose random draw fell under
\* the lane's arrival probability
simulate_car_arrivals(q, arrived) ==
    [q EXCEPT !.traffic_queues =
        [lane \in QueueLanes |->
            IF lane \in arrived
            THEN Append(q.traffic_queues[lane], <<"Car", q.simulation_time>>)
            ELSE q.traffic_queues[lane]]]

\* serve_lane taking the car at the tail of the queue
serve_lane_last(q, lane, times) ==
    IF q.traffic_queues[lane] # <<>>
    THEN LET queue == q.traffic_queues[lane]
             arrival_time == queue[Len(queue)][2]
         IN  [q EXCEPT !.traffic_queues[lane] = SubSeq(queue, 1, Len(queue) - 1),
                       ![times] = Append(@, q.simulation_time - arrival_time)]
    ELSE q

\* if traffic_queues[lane]: pop(0) and append the waiting time to the list `times`
serve_lane(q, lane, times) ==
    IF q.traffic_queues[lane] # <<>>
    THEN LET arrival_time == Head(q.traffic_queues[lane])[2]
         IN  [q EXCEPT !.traffic_queues[lane] = Tail(@),
                       ![times] = Append(@, q.simulation_time - arrival_time)]
    ELSE q

\* the serving branch shared by both step functions
serve_green(q, times) ==
    IF q.signal_state = "NorthSouth"
    THEN serve_lane(serve_lane(q, "North", times), "South", times)
    ELSE serve_lane(serve_lane(q, "East", times), "West", times)

run_simulation_step_fixed(q, arrived) ==
    LET q1 == [q EXCEPT !.simulation_time = @ + 1]
        q2 == simulate_car_arrivals(q1, arrived)
        q3 == [q2 EXCEPT !.signal_timer = @ + 1]
        q4 == IF q3.signal_timer >= fixed_green_duration
              THEN [q3 EXCEPT !.signal_state =
                                  IF @ = "NorthSouth" THEN "EastWest" ELSE "NorthSouth",
                              !.signal_timer = 0]
              ELSE q3
    IN  serve_green(q4, "waiting_times_fixed")

run_simulation_step_dynamic(q, arrived) ==
    LET q1 == [q EXCEPT !.simulation_time = @ + 1]
        q2 == simulate_car_arrivals(q1, arrived)
        queues == get_queue_lengths(q2)
        q3 == [q2 EXCEPT !.signal_state =
                  IF queues["North"] + queues["South"] > queues["East"] + queues["West"]
                  THEN "NorthSouth" ELSE "EastWest"]
    IN  serve_green(q3, "waiting_times_dynamic")

reset_simulation ==
    [traffic_queues |-> [lane \in QueueLanes |-> <<>>], signal_state |-> "NorthSouth",
     simulation_time |-> 0, waiting_times_fixed |-> <<>>,
     waiting_times_dynamic |-> <<>>, signal_timer |-> 0]

\* the engine is not touched by the backend's handlers
EngineIdle ==
    UNCHANGED <<car, cars, lane_cars, cars_in_intersection, car_entry_directions, lights,
                cycle_position, cycle_timer, tick_count, attempt, override, twin,
                intersection_size>>

\* POST /api/simulate_step_fixed
SimulateStepFixed(arrived) ==
    /\ BackendBecomes(run_simulation_step_fixed(Backend, arrived))
    /\ ret' = [op |-> "fixed", value |-> arrived]
    /\ EngineIdle

\* POST /api/simulate_step_dynamic
SimulateStepDynamic(arrived) ==
    /\ BackendBecomes(run_simulation_step_dynamic(Backend, arrived))
    /\ ret' = [op |-> "dynamic", value |-> arrived]
    /\ EngineIdle

\* POST /api/reset
ResetAllData ==
    /\ BackendBecomes(reset_simulation)
    /\ ret' = [op |-> "reset", value |-> {}]
    /\ EngineIdle

NextQueues ==
    \/ \E arrived \in SUBSET QueueLanes :
          simulation_time < MaxQueueTime /\ SimulateStepFixed(arrived)
    \/ \E arrived \in SUBSET QueueLanes :
          simulation_time < MaxQueueTime /\ SimulateStepDynamic(arrived)
    \/ simulation_time > 0 /\ ResetAllData

SpecQueues == Init /\ [][NextQueues]_vars

\* the arrivals drawn in the fixed-mode runs
FixedArrivals == {{}, {"North", "East"}, {"South", "West"}}

\* the backend driven through /api/simulate_step_fixed and /api/reset only
NextFixed ==
    \/ \E arrived \in FixedArrivals :
          simulation_time < MaxFixedTime /\ SimulateStepFixed(arrived)
    \/ simulation_time > 0 /\ ResetAllData

SpecFixed == Init /\ [][NextFixed]_vars

----------------------------------------------------------------------------
\* The lights' countdown timers: set_state with a duration, and the updates

TimerDirections == {NORTH, EAST}
TimerStates == {RED, GREEN, GREEN_ARROW}
Durations == 0..MaxDuration

\* controller.lights[direction].set_state(new_state, duration)
LightSetState(direction, new_state, duration) ==
    /\ lights' = [lights EXCEPT ![direction] = set_state_for(@, new_state, duration)]
    /\ ret' = [op |-> "set_state", value |-> direction]
    /\ UNCHANGED <<car, cars, lane_cars, cars_in_intersection, car_entry_directions,
                   cycle_position, cycle_timer, tick_count, attempt, override>>

\* controller.update()
ControllerUpdate ==
    /\ Commit(controller_update(State))
    /\ ret' = [op |-> "update", value |-> None]
    /\ UNCHANGED override

\* tick() of the engine without cars
TimerTick ==
    /\ Commit(tick(State, <<>>))
    /\ ret' = [op |-> "tick", value |-> None]
    /\ UNCHANGED override

NextTimer ==
    /\ \/ \E direction \in TimerDirections, new_state \in TimerStates,
            duration \in Durations : LightSetState(direction, new_state, duration)
       \/ ControllerUpdate
       \/ tick_count < MaxTimerTick /\ TimerTick
    /\ UNCHANGED <<twin, intersection_size, backend>>

SpecTimer == Init /\ [][NextTimer]_vars

----------------------------------------------------------------------------
\* Claims

Registered == {c \in CarIds : In(c, cars)}

\* the lanes, and the intersection (as lane -1), whose car list holds c
Containers(c) ==
    {rl \in RoadIdSet \X LaneNums : In(c, lane_cars[rl[1]][rl[2]])}
    \cup (IF In(c, cars_in_intersection) THEN {<<main_intersection, -1>>} ELSE {})

\* C1: no two registered cars have the same grid cell as their position,
\* in any state reachable by add_car, remove_car, set_traffic_light and tick.
C1_NoTwoCarsOnOneCell ==
    \A c \in Registered, d \in Registered :
        c # d => car[c].position # car[d].position

\* C2: every registered car is in exactly one container, and find_car_location
\* returns exactly one non-None component for it.
C2_ExactlyOneContainer ==
    \A c \in Registered :
        /\ Cardinality(Containers(c)) = 1
        /\ LET loc == find_car_location(State, c)
           IN  (loc[1] # None) # (loc[2] # None)

\* C3: after a tick, a car whose move attempt succeeded has wait counter 0, and
\* a car whose move attempt failed has its previous wait counter plus one.
C3_WaitCounter ==
    \A c \in Registered :
        attempt[c].n > 0 =>
            /\ attempt[c].moved = "True" => car[c].wait_time = 0
            /\ attempt[c].moved = "False" =>
                   car[c].wait_time = attempt[c].wait_before + 1

\* a signal state permits a turn: straight on GREEN or GREEN_ARROW, left on
\* GREEN_ARROW only, right on anything but RED
Permits(state, intended_movement) ==
    CASE intended_movement = STRAIGHT -> state \in {GREEN, GREEN_ARROW}
      [] intended_movement = LEFT -> state = GREEN_ARROW
      [] intended_movement = RIGHT -> state # RED
      [] OTHER -> FALSE

\* the car's last move attempt took it from a road into the intersection
Entered(c) == attempt[c].entry # None /\ attempt[c].moved = "True"

\* C4: whenever a car is transferred from a road into the intersection, the
\* signal consulted for its entry permits the car's intended turn at that moment.
C4_EntryPermitted ==
    \A c \in CarIds :
        Entered(c) => Permits(attempt[c].light, car[c].intended_movement)

C4_Witness ==
    \E c \in CarIds : Entered(c) /\ car[c].intended_movement = RIGHT

\* C5: within one tick the signals reach their final state of the tick before
\* the first move attempt, and every move attempt of the tick sees that state.
C5_OneSignalSnapshot ==
    [][tick_count' = tick_count + 1 =>
          \A c \in CarIds :
              attempt'[c].n > 0 =>
                  attempt'[c].signals = [d \in Direction |-> lights'[d].state]]_vars

C5_Witness ==
    /\ tick_count = 1
    /\ lights[NORTH].state = GREEN
    /\ \E c \in CarIds, d \in CarIds :
           c # d /\ attempt[c].n > 0 /\ attempt[d].n > 0

\* C6: a state set with set_traffic_light right before a tick is the state the
\* entry decisions of that tick are made against, for the direction it was set on.
C6_OverrideHeld ==
    [][tick_count' = tick_count + 1 =>
          \A c \in CarIds :
              (attempt'[c].entry # None /\ override[attempt'[c].entry] # None) =>
                  attempt'[c].light = override[attempt'[c].entry]]_vars

\* the turn table: clockwise N -> E -> S -> W -> N for RIGHT, the reverse for LEFT
Clockwise(d) ==
    CASE d = NORTH -> EAST [] d = EAST -> SOUTH [] d = SOUTH -> WEST [] d = WEST -> NORTH

TurnTable(intended_movement, entry_direction) ==
    CASE intended_movement = STRAIGHT -> entry_direction
      [] intended_movement = RIGHT -> Clockwise(entry_direction)
      [] intended_movement = LEFT ->
             CHOOSE d \in Direction : Clockwise(d) = entry_direction

\* C7: alone in the four-way topology under repeated ticks, a car that has
\* entered the intersection with intended turn RIGHT or LEFT eventually is on
\* the road connected at the turn table's exit direction, heading that way.
C7_TurningCarLeaves ==
    \A entry_direction \in Direction, intended_movement \in {RIGHT, LEFT} :
        (/\ In("c1", cars_in_intersection)
         /\ car_entry_directions["c1"] = entry_direction
         /\ car["c1"].intended_movement = intended_movement)
        ~> (LET exit == TurnTable(intended_movement, entry_direction)
            IN  /\ In("c1", get_all_cars(State, connected_roads[exit]))
                /\ car["c1"].direction = exit)

\* C8: the exit direction computed for a car is the entry direction for
\* STRAIGHT, its clockwise successor for RIGHT and its counter-clockwise
\* successor for LEFT, for all 4 entry directions and 3 intended turns.
C8_ExitDirection ==
    ret.op = "get_exit_direction" =>
        ret.value = TurnTable(car["c1"].intended_movement, car_entry_directions["c1"])

C8_Witness ==
    /\ ret.op = "get_exit_direction"
    /\ car["c1"].intended_movement = LEFT
    /\ car_entry_directions["c1"] = NORTH
    /\ ret.value = WEST

\* C9: the single STRAIGHT car placed at (4,10) heading SOUTH is inside the
\* intersection after 6 ticks, is on the south road at column 10 heading SOUTH
\* at the end of the run, is never on the south road otherwise than so, and has
\* wait counter 0 after every tick up to and including the tick of its exit.
C9_Scenario ==
    LET on_south == In("c1", get_all_cars(State, "south_road"))
    IN  /\ tick_count = 6 => In("c1", cars_in_intersection)
        /\ tick_count = MaxAutoTick => on_south
        /\ on_south => car["c1"].position[2] = 10 /\ car["c1"].direction = SOUTH
        /\ (~on_south \/ car["c1"].position = <<center_row + road_near, 10>>) =>
               car["c1"].wait_time = 0

C9_Witness ==
    /\ In("c1", get_all_cars(State, "south_road"))
    /\ car["c1"].position = <<center_row + road_near, 10>>
    /\ attempt["c1"].moved = "True"

\* C10: under automatic cycling every green phase, the first one included,
\* governs 30 consecutive ticks: ticks 1..30 NORTH/SOUTH, 31..60 EAST/WEST, ...
C10_ThirtyTickPhases ==
    tick_count >= 1 =>
        LET phase == ((tick_count - 1) \div cycle_duration) % 2
        IN  \A d \in Direction :
                lights[d].state = IF d \in default_cycle[phase + 1] THEN GREEN ELSE RED

\* the directions whose light is in the given state
LightsIn(ls, state) == {d \in Direction : ls[d].state = state}

C12_OneAttemptPerCar ==
    [][tick_count' = tick_count + 1 =>
          \A c \in CarIds : In(c, cars) => attempt'[c].n = 1]_vars

C14_OrphanMoveIsAnError ==
    \A c \in Registered :
        (attempt[c].n > 0 /\ attempt[c].location = <<None, None>>) =>
            attempt[c].moved \notin {"True", "False"}

\* C15: a car has a record in the entry-direction mapping exactly while it is
\* in the intersection's active list.
C15_EntryRecordWhileInside ==
    \A c \in CarIds :
        (car_entry_directions[c] # None) <=> In(c, cars_in_intersection)

C15_Witness ==
    /\ attempt["c1"].location = <<None, main_intersection>>
    /\ attempt["c1"].moved = "True"
    /\ In("c1", lane_cars["south_road"][0])
    /\ car_entry_directions["c1"] = None
    /\ attempt["c2"].location = <<None, main_intersection>>
    /\ ~In("c2", cars)
    /\ car_entry_directions["c2"] = None

\* C16: a registered car's cell lies in the intersection's cell region exactly
\* when the car is in the intersection's active list.
C16_InRegionIffActive ==
    \A c \in Registered :
        (car[c].position \in intersection_positions) <=> In(c, cars_in_intersection)

\* C17: every car in a lane's car list is on one of that lane's cells.
C17_LaneCarsOnLaneCells ==
    \A road_id \in RoadIdSet, lane_num \in LaneNums, c \in CarIds :
        In(c, lane_cars[road_id][lane_num]) =>
            car[c].position \in positions(road_id, lane_num)

\* C18: the number of cars in each lane's car list is at most the number of
\* cells of that lane.
C18_LaneWithinCapacity ==
    \A road_id \in RoadIdSet, lane_num \in LaneNums :
        Len(lane_cars[road_id][lane_num]) <= Cardinality(positions(road_id, lane_num))

\* the south road's lane 0 holds as many cars as it has cells, and the car that
\* left the intersection towards it was not appended
C18_Witness ==
    /\ Len(lane_cars["south_road"][0]) = Cardinality(positions("south_road", 0))
    /\ attempt["c1"].location = <<None, main_intersection>>
    /\ attempt["c1"].moved = "True"
    /\ ~In("c1", cars_in_intersection)
    /\ ~In("c1", lane_cars["south_road"][0])

\* add_car(c, road_id, lane_num) is accepted: the road and the lane exist, the
\* lane holds fewer cars than it has cells, and the car's cell is a cell of the lane
AddAccepted(c, road_id, lane_num) ==
    /\ road_id \in RoadIdSet
    /\ lane_num \in LaneNums
    /\ Len(lane_cars[road_id][lane_num]) < Cardinality(positions(road_id, lane_num))
    /\ car[c].position \in positions(road_id, lane_num)

\* C19: add_car returns False and leaves the car list and every lane unchanged
\* when the road or the lane is unknown, the lane is full or the car's cell is
\* not a cell of the lane; otherwise it returns True, appends the car to the
\* lane and to the car list and sets the car's lane index.
C19_AddCar ==
    [][\A c \in CarIds, road_id \in FillRoads, lane_num \in FillLanes :
          AddCar(c, road_id, lane_num) =>
              IF AddAccepted(c, road_id, lane_num)
              THEN /\ ret' = "True"
                   /\ cars' = Append(cars, c)
                   /\ lane_cars' = [lane_cars EXCEPT ![road_id][lane_num] = Append(@, c)]
                   /\ car'[c].lane = lane_num
              ELSE /\ ret' = "False"
                   /\ cars' = cars
                   /\ lane_cars' = lane_cars]_vars

\* lane 0 of the north road is full after c1 was added to it, c6 is on lane 1,
\* and the last add_car was refused
C19_Witness ==
    /\ Len(lane_cars["north_road"][0]) = Cardinality(positions("north_road", 0))
    /\ In("c1", lane_cars["north_road"][0])
    /\ In("c6", lane_cars["north_road"][1])
    /\ car["c6"].lane = 1
    /\ ret = "False"

\* the list without every occurrence of c
Without(lst, c) == SelectSeq(lst, LAMBDA x : x # c)

\* C20: after remove_car(c) the car is in no lane, not in the intersection's
\* list, not in the car list and has no entry-direction record, and the other
\* cars are where they were; remove_car of a car that is not registered
\* changes nothing.
C20_RemoveCar ==
    [][\A c \in CarIds :
          RemoveCar(c) =>
              /\ cars' = Without(cars, c)
              /\ lane_cars' = [r \in RoadIdSet |-> [l \in LaneNums |->
                                   Without(lane_cars[r][l], c)]]
              /\ cars_in_intersection' = Without(cars_in_intersection, c)
              /\ car_entry_directions' = [car_entry_directions EXCEPT ![c] = None]
              /\ car' = car
              /\ ~In(c, cars) =>
                     UNCHANGED <<cars, lane_cars, cars_in_intersection,
                                 car_entry_directions>>]_vars

\* C21: set_traffic_light on the known intersection returns True, makes that
\* direction's signal equal to the state given, and leaves the other three
\* signals, the cycle position and timer, the tick counter and all cars as they were.
C21_SetSignal ==
    [][\A direction \in Direction, state \in TrafficLightState :
          (override'[direction] = state /\ SetSignal(main_intersection, direction, state)) =>
              /\ ret' = "True"
              /\ lights'[direction].state = state
              /\ \A d \in Direction \ {direction} : lights'[d] = lights[d]
              /\ UNCHANGED <<cycle_position, cycle_timer, tick_count, car, cars,
                             lane_cars, cars_in_intersection, car_entry_directions>>]_vars

\* after the phase change, EAST was set to GREEN_ARROW and the other three
\* lights are as the cycle left them
C21_Witness ==
    /\ ret = "True"
    /\ tick_count >= cycle_duration
    /\ override = [NoOverride EXCEPT ![EAST] = GREEN_ARROW]
    /\ lights[EAST].state = GREEN_ARROW
    /\ lights[WEST].state = GREEN
    /\ lights[NORTH].state = RED
    /\ lights[SOUTH].state = RED

\* C22: set_traffic_light with an intersection id that is not registered returns
\* False and changes no signal and no other engine state.
C22_SetSignalUnknown ==
    [][(/\ tick_count' = tick_count
        /\ override' = override
        /\ \E direction \in Direction, state \in TrafficLightState :
               SetSignal("no_intersection", direction, state)) =>
          /\ ret' = "False"
          /\ UNCHANGED <<lights, cycle_position, cycle_timer, tick_count, car, cars,
                         lane_cars, cars_in_intersection, car_entry_directions>>]_vars

\* a refused set_traffic_light, the lights being as the last tick left them
C22_Witness ==
    /\ ret = "False"
    /\ tick_count >= 1
    /\ override = NoOverride
    /\ LightsIn(lights, GREEN) = {NORTH, SOUTH}

\* C23: a tick neither adds nor removes cars: the car list after the tick is
\* the car list before it, also when a car stands at the end of its road or at
\* the edge of the grid.
C23_TickKeepsCars ==
    [][tick_count' = tick_count + 1 => cars' = cars]_vars

\* the car has driven to the edge of the grid, has failed to move there, and is
\* still registered
C23_Witness ==
    /\ car["c1"].position = <<grid_height - 1, 10>>
    /\ car["c1"].wait_time >= 2
    /\ cars = <<"c1">>

\* C24: get_simulation_state changes no engine state, and the snapshot reports
\* the tick counter, the length of the car list, the intersection's four signal
\* states, the count and the positions of the cars in its active list, and the
\* wait counter of each registered car, as they are when it is called.
C24_GetState ==
    [][ret'.op = "get_simulation_state" =>
          /\ UNCHANGED <<car, cars, lane_cars, cars_in_intersection,
                         car_entry_directions, lights, cycle_position, cycle_timer,
                         tick_count>>
          /\ LET snapshot == ret'.value
                 info == snapshot.intersections[main_intersection]
             IN  /\ snapshot.tick = tick_count
                 /\ snapshot.total_cars = Len(cars)
                 /\ DOMAIN snapshot.intersections = {main_intersection}
                 /\ \A d \in Direction : info.traffic_lights[d] = lights[d].state
                 /\ info.cars_count = Len(cars_in_intersection)
                 /\ info.car_positions =
                        [i \in 1..Len(cars_in_intersection) |->
                            car[cars_in_intersection[i]].position]
                 /\ DOMAIN snapshot.car_wait_times = Registered
                 /\ \A c \in Registered :
                        snapshot.car_wait_times[c] = car[c].wait_time]_vars

\* a snapshot taken after a tick with a car inside the intersection, a car that
\* has waited, and NORTH set to YELLOW
C24_Witness ==
    /\ ret.op = "get_simulation_state"
    /\ ret.value.tick >= 1
    /\ ret.value.intersections[main_intersection].cars_count >= 1
    /\ ret.value.intersections[main_intersection].traffic_lights[NORTH] = YELLOW
    /\ \E c \in DOMAIN ret.value.car_wait_times : ret.value.car_wait_times[c] >= 1


\* the side of the intersection a road is connected at
RoadSide(road_id) == CHOOSE d \in Direction : connected_roads[d] = road_id

\* C25: a car that attempts to enter the intersection from the road connected
\* at side D is admitted exactly when the signal of direction D permits its
\* movement (the cell it would take being free, as it is for a car alone).
C25_EntrySignalOfRoadSide ==
    \A c \in CarIds :
        (attempt[c].entry # None /\ attempt[c].location[1] # None) =>
            LET D == RoadSide(attempt[c].location[1])
            IN  attempt[c].moved =
                    PyBool(can_go_straight(TrafficLight(attempt[c].signals[D])))


\* the car is on a road and the next cell along its heading is an intersection
\* cell, or the car is in the intersection's active list
WaitingOrInside(c) ==
    \/ In(c, cars_in_intersection)
    \/ /\ find_car_location(State, c)[1] # None
       /\ get_next_position(car[c], 1) \in intersection_positions

\* C26: with only STRAIGHT cars and tick() called forever, every car that is
\* waiting to enter or is inside the intersection eventually is on the road
\* connected at the side it is heading to.
C26_StraightCarsLeave ==
    \A c \in {"c1", "c2"} :
        WaitingOrInside(c)
            ~> In(c, get_all_cars(State, connected_roads[car[c].direction]))


\* C27: from cars placed on pairwise distinct road cells, with ticks only, no
\* two cars are on the same cell and every car is found at its cell by the
\* occupancy checks of the engine, of its roads and of the intersection.
C27_DistinctAndVisible ==
    /\ \A c \in Registered, d \in Registered :
           c # d => car[c].position # car[d].position
    /\ \A c \in Registered :
           /\ ~is_position_free(State, car[c].position)
           /\ \/ \E road_id \in RoadIdSet :
                    ~road_is_position_free(State, road_id, car[c].position)
              \/ ~is_intersection_position_free(State, car[c].position)


\* the cell is on the outermost row or column of the region of size sz on the
\* side of direction
OnOutermost(position, direction, sz) ==
    LET half_size == sz \div 2
    IN  CASE direction = NORTH -> position[1] = center_row - half_size
          [] direction = SOUTH -> position[1] = center_row + half_size
          [] direction = EAST -> position[2] = center_col + half_size
          [] direction = WEST -> position[2] = center_col - half_size

\* C28: in an intersection of odd size s, a STRAIGHT car inside it is treated
\* as having reached its exit exactly when it is on the outermost row or column
\* of the region on the exit side, and a car alone in the intersection
\* eventually is on the road connected at that side.
C28_ExitAtOutermostCell ==
    /\ [](In("c1", cars_in_intersection) =>
            LET entry_direction == car_entry_directions["c1"]
                exit_direction ==
                    get_exit_direction(car["c1"].intended_movement, entry_direction)
            IN  (process_car_in_intersection(State, "c1", entry_direction) # None)
                    <=> OnOutermost(car["c1"].position, exit_direction,
                                    intersection_size))
    /\ (In("c1", cars_in_intersection)
           ~> In("c1", get_all_cars(State, connected_roads[car["c1"].direction])))


\* C29: a move attempt that fails leaves everything as it was but the wait
\* counter of the car that attempted: position, heading, lane index and
\* container lists of every car, the entry-direction mapping, the other cars.
C29_FailedMoveFrame ==
    [][\A c \in CarIds :
          (attempt'[c].n = attempt[c].n + 1 /\ attempt'[c].moved = "False") =>
              /\ car' = [car EXCEPT ![c].wait_time = car'[c].wait_time]
              /\ UNCHANGED <<cars, lane_cars, cars_in_intersection,
                             car_entry_directions, lights, cycle_position,
                             cycle_timer, tick_count>>]_vars

\* c1, inside the intersection on the exit row, has just failed to move because
\* c2 stands on the entry cell of the south road
C29_Witness ==
    /\ attempt["c1"].moved = "False"
    /\ car["c1"].position = <<11, 10>>
    /\ car["c1"].wait_time >= 1
    /\ In("c1", cars_in_intersection)
    /\ car_entry_directions["c1"] = SOUTH
    /\ car["c2"].position = <<12, 10>>


\* C30: over one tick every car keeps its cell or is on the next cell along the
\* heading it had when the tick began, and its cell is inside the grid.
C30_OneCellPerTick ==
    [][tick_count' = tick_count + 1 =>
          \A c \in Registered :
              /\ \/ car'[c].position = car[c].position
                 \/ car'[c].position = get_next_position(car[c], 1)
              /\ is_valid_position(car'[c].position)]_vars


\* the step hands car c from the intersection's active list to a lane of a road
HandedToRoad(c) ==
    /\ In(c, cars_in_intersection)
    /\ ~In(c, cars_in_intersection')
    /\ \E road_id \in RoadIdSet, lane_num \in LaneNums :
           In(c, lane_cars'[road_id][lane_num])

\* C31: a car's heading changes only in the move that hands it from the
\* intersection to a road, and after that move it is the exit direction of its
\* recorded entry direction and intended turn; in no other step does the heading
\* of a car change.
C31_HeadingChangesAtExit ==
    [][\A c \in Registered :
          /\ HandedToRoad(c) =>
                 car'[c].direction =
                     get_exit_direction(car[c].intended_movement,
                                        car_entry_directions[c])
          /\ car'[c].direction # car[c].direction => HandedToRoad(c)]_vars

\* c1 has just been handed to the south road, heading SOUTH, while the turning
\* car c2 is inside the intersection
C31_Witness ==
    /\ attempt["c1"].location = <<None, main_intersection>>
    /\ attempt["c1"].moved = "True"
    /\ In("c1", lane_cars["south_road"][0])
    /\ car["c1"].direction = SOUTH
    /\ In("c2", cars_in_intersection)
    /\ car["c2"].direction = SOUTH


\* C32: every car in a lane's car list heads in the direction of the lane, which
\* is the direction of its road, in every state reached by ticks from a
\* placement where this holds.
C32_CarsFollowLaneDirection ==
    \A road_id \in RoadIdSet, lane_num \in LaneNums :
        \A i \in 1..Len(lane_cars[road_id][lane_num]) :
            car[lane_cars[road_id][lane_num][i]].direction = roads[road_id].direction


C34_GreenWithin31Ticks ==
    \A d \in Direction, k \in 0..(MaxAutoTick - 32) :
        (tick_count = k) ~>
            (tick_count \in (k + 1)..(k + 31) /\ lights[d].state = GREEN)

\* tick 59: NORTH has been RED for thirty ticks in a row, 30..59
C34_Witness ==
    /\ tick_count = 59
    /\ cycle_timer = 29
    /\ lights[NORTH].state = RED
    /\ lights[EAST].state = GREEN


\* the number of entries of the list lst that are car c
Occurrences(lst, c) == Cardinality({i \in 1..Len(lst) : lst[i] = c})

RECURSIVE SumOccurrences(_, _)
\* the entries that are car c in the lists of the set lists, added up
SumOccurrences(lists, c) ==
    IF lists = {} THEN 0
    ELSE LET rl == CHOOSE x \in lists : TRUE
         IN  Occurrences(lane_cars[rl[1]][rl[2]], c) + SumOccurrences(lists \ {rl}, c)

\* C35: each car is at most once in the engine's car list and at most once in
\* all lane car lists and the intersection's active list taken together.
C35_RegisteredOnce ==
    \A c \in CarIds :
        /\ Occurrences(cars, c) <= 1
        /\ SumOccurrences(RoadIdSet \X LaneNums, c)
               + Occurrences(cars_in_intersection, c) <= 1


\* C36: the lanes of a road are pairwise disjoint and together are the road's
\* cells; lane k of a road whose direction is NORTH or SOUTH is the column
\* start_col + k over the road's rows, lane k of an EAST or WEST road is the row
\* start_row + k over the road's columns.
C36_LanesPartitionRoad ==
    ret.op = "Road" =>
        LET road == ret.value.road
            lanes == ret.value.lanes
            rows == Min(road.start_pos[1], road.end_pos[1]) ..
                    Max(road.start_pos[1], road.end_pos[1])
            cols == Min(road.start_pos[2], road.end_pos[2]) ..
                    Max(road.start_pos[2], road.end_pos[2])
        IN  /\ DOMAIN lanes = 0..(road.num_lanes - 1)
            /\ \A k \in DOMAIN lanes, j \in DOMAIN lanes :
                   k # j => lanes[k] \cap lanes[j] = {}
            /\ UNION {lanes[k] : k \in DOMAIN lanes} = ret.value.positions
            /\ \A k \in DOMAIN lanes :
                   lanes[k] = IF road.direction \in {NORTH, SOUTH}
                              THEN {<<row, road.start_pos[2] + k>> : row \in rows}
                              ELSE {<<road.start_pos[1] + k, col>> : col \in cols}

\* a three-lane WEST road given from its right end to its left end
C36_Witness ==
    /\ ret.op = "Road"
    /\ ret.value.road.direction = WEST
    /\ ret.value.road.num_lanes = 3
    /\ ret.value.road.start_pos = <<2, 6>>
    /\ ret.value.road.end_pos = <<5, 3>>
    /\ Cardinality(ret.value.positions) = 12


\* the lanes of the axis that signal_state names
GreenLanes(state) == IF state = "NorthSouth" THEN <<"North", "South">> ELSE <<"East", "West">>

\* the queue of a lane once the step's arrivals joined it
AfterArrivals(lane) ==
    IF lane \in ret'.value
    THEN Append(traffic_queues[lane], <<"Car", simulation_time'>>)
    ELSE traffic_queues[lane]

\* the waiting times of the cars a step took from the green lanes, in lane order
Served(lanes) ==
    LET taken(lane) == IF traffic_queues'[lane] # AfterArrivals(lane)
                       THEN <<simulation_time' - Head(AfterArrivals(lane))[2]>>
                       ELSE <<>>
    IN  taken(lanes[1]) \o taken(lanes[2])

ServesHeads(before, after) ==
    LET lanes == GreenLanes(signal_state')
        green == {lanes[1], lanes[2]}
        recorded == SubSeq(after, Len(before) + 1, Len(after))
    IN  /\ \A lane \in green :
              \/ traffic_queues'[lane] = AfterArrivals(lane)
              \/ /\ AfterArrivals(lane) # <<>>
                 /\ traffic_queues'[lane] = Tail(AfterArrivals(lane))
        /\ \A lane \in QueueLanes \ green : traffic_queues'[lane] = AfterArrivals(lane)
        /\ Len(after) >= Len(before)
        /\ SubSeq(after, 1, Len(before)) = before
        /\ \/ recorded = Served(lanes)
           \/ recorded = Served(<<lanes[2], lanes[1]>>)
        /\ \A i \in 1..Len(recorded) : recorded[i] >= 0

\* C37: every fixed-mode or dynamic-mode step of the queue simulator takes at most one
\* car from each queue of the axis that is green in that step, always the head of the
\* queue, takes none from the other axis, and records for each car taken a waiting time
\* of the current simulation time minus the car's arrival time, which is never negative.
C37_StepServesHeadsOfGreenAxis ==
    [][/\ ret'.op = "fixed" => ServesHeads(waiting_times_fixed, waiting_times_fixed')
       /\ ret'.op = "dynamic" =>
              ServesHeads(waiting_times_dynamic, waiting_times_dynamic')]_vars

\* a fixed step served a car that had waited while two cars queued in one lane
C37_Witness ==
    /\ simulation_time > 0
    /\ ret.op = "fixed"
    /\ \E i \in 1..Len(waiting_times_fixed) : waiting_times_fixed[i] > 0
    /\ \E lane \in QueueLanes : Len(traffic_queues[lane]) >= 2
    /\ waiting_times_dynamic # <<>>


\* C38: in fixed mode only, the signal state alternates between NorthSouth and EastWest
\* with every green period, the first after a reset included, and each period serves
\* cars for exactly fixed_green_duration consecutive steps: step t (from 1) of a run is
\* served under NorthSouth when (t - 1) \div fixed_green_duration is even, under
\* EastWest when it is odd.
C38_FixedPeriodsOfFive ==
    simulation_time >= 1 =>
        signal_state = IF ((simulation_time - 1) \div fixed_green_duration) % 2 = 0
                       THEN "NorthSouth" ELSE "EastWest"


\* C39: a signal's countdown timer is never negative; the signal update decrements a
\* positive timer by exactly one, leaves a zero timer at zero, and changes no signal's
\* state.
C39_TimerCountsDownToZero ==
    /\ [](\A d \in Direction : lights[d].timer >= 0)
    /\ [][ret'.op = "update" =>
              \A d \in Direction :
                  /\ lights'[d].state = lights[d].state
                  /\ lights[d].timer > 0 => lights'[d].timer = lights[d].timer - 1
                  /\ lights[d].timer = 0 => lights'[d].timer = 0]_vars

\* an update has counted one light down to 1 while another light rests at 0, with
\* the states the lights were set to
C39_Witness ==
    /\ tick_count >= 1
    /\ ret.op = "update"
    /\ lights[NORTH] = [state |-> GREEN_ARROW, timer |-> 1]
    /\ lights[EAST] = [state |-> GREEN, timer |-> 0]

====
